---- MODULE Spec2Model ----
(***************************************************************************)
(* Model of the two stock-quote MCP servers:                               *)
(*   src/multi_market_stock_mcp.py  (Taiwan / China A-share / US)          *)
(*   src/taiwan_stock_mcp.py        (Taiwan only)                          *)
(*                                                                         *)
(* Strings of the source are modelled as sequences of one-character        *)
(* strings, so that upper(), strip(), startswith(), isdigit() and slicing  *)
(* are computed and not assumed.  Upstream field values are tagged records *)
(* [kind, v]: kind "num" is a numeric string or a JSON number with value   *)
(* v, "empty" is '', "dash" is '-', "null" is None / JSON null, "text" is  *)
(* a non-numeric string.  Prices are integers (a fixed-point unit); the    *)
(* price position is kept as an exact fraction n/d (d > 0), so the         *)
(* thresholds are compared exactly (the source computes it in binary       *)
(* floating point).  The Chinese result strings of the source are named by *)
(* ASCII tokens; each token's source string is given where it is defined.  *)
(***************************************************************************)
EXTENDS Integers, Sequences, FiniteSets, TLC

VARIABLES
    fn,           \* pure-function application: which function was applied ("none" before)
    arg,          \* ... its input
    out,          \* ... its result
    tool,         \* the MCP tool being served ("idle" before a call)
    market,       \* params.market of the call ("auto" for the batch tools)
    stock_codes,  \* params.stock_codes (params.stock_code as a list of one)
    idx,          \* the position in stock_codes of the item being processed
    pc,           \* the await the coroutine is suspended at
    requests,     \* the upstream requests of the lookup in progress, with their answers
    lookups,      \* history: the finished lookups, with their requests and result
    results,      \* the results / comparisons list of the batch loop
    ret           \* what the tool returned (<<>> before it returns)

call == <<fn, arg, out>>
serve == <<tool, market, stock_codes, idx, pc, requests, lookups, results, ret>>
vars == <<call, serve>>

(***************************************************************************)
(* Characters and the str methods the source uses.                         *)
(***************************************************************************)
DigitSeq == <<"0", "1", "2", "3", "4", "5", "6", "7", "8", "9">>
UpperSeq == <<"A", "B", "C", "D", "E", "F", "G", "H", "I", "J", "K", "L", "M",
              "N", "O", "P", "Q", "R", "S", "T", "U", "V", "W", "X", "Y", "Z">>
LowerSeq == <<"a", "b", "c", "d", "e", "f", "g", "h", "i", "j", "k", "l", "m",
              "n", "o", "p", "q", "r", "s", "t", "u", "v", "w", "x", "y", "z">>

Range(s) == {s[i] : i \in DOMAIN s}

\* str.isdigit / str.isalpha / str.isspace of one character
CharIsDigit(c) == c \in Range(DigitSeq)
CharIsAlpha(c) == c \in Range(UpperSeq) \cup Range(LowerSeq)
CharIsSpace(c) == c \in {" ", "\t"}

\* str.upper of one character
CharUpper(c) ==
    IF c \in Range(LowerSeq)
    THEN UpperSeq[CHOOSE i \in DOMAIN LowerSeq : LowerSeq[i] = c]
    ELSE c

\* str.upper()
Upper(s) == [i \in DOMAIN s |-> CharUpper(s[i])]

RECURSIVE LStrip(_)
LStrip(s) == IF s # <<>> /\ CharIsSpace(Head(s)) THEN LStrip(Tail(s)) ELSE s

RECURSIVE RStrip(_)
RStrip(s) ==
    IF s # <<>> /\ CharIsSpace(s[Len(s)]) THEN RStrip(SubSeq(s, 1, Len(s) - 1)) ELSE s

\* str.strip()
Strip(s) == RStrip(LStrip(s))

\* str.startswith(prefix)
StartsWith(s, prefix) ==
    Len(s) >= Len(prefix) /\ SubSeq(s, 1, Len(prefix)) = prefix

\* str.isdigit(): non-empty and every character a digit
IsDigit(s) == s # <<>> /\ \A i \in DOMAIN s : CharIsDigit(s[i])

\* any(c.isalpha() for c in code)
AnyAlpha(s) == \E i \in DOMAIN s : CharIsAlpha(s[i])

(***************************************************************************)
(* Market classifier.                                                      *)
(***************************************************************************)
detect_market(stock_code) ==
    LET code == Strip(Upper(stock_code)) IN
    IF AnyAlpha(code)
    THEN IF (StartsWith(code, <<"S", "H">>) \/ StartsWith(code, <<"S", "Z">>))
            /\ Len(code) = 8
         THEN "china"
         ELSE "us"
    ELSE IF IsDigit(code)
         THEN IF 4 <= Len(code) /\ Len(code) <= 6
              THEN "taiwan"
              ELSE IF Len(code) = 6 THEN "china" ELSE "taiwan"
         ELSE "taiwan"

(***************************************************************************)
(* Inputs of the classifier: an optional blank, a prefix, a body.          *)
(***************************************************************************)
MaxBody == 6

RECURSIVE SeqsUpTo(_, _)
SeqsUpTo(S, n) ==
    IF n = 0 THEN {<<>>}
    ELSE LET shorter == SeqsUpTo(S, n - 1) IN
         shorter \cup {Append(s, c) : s \in {t \in shorter : Len(t) = n - 1}, c \in S}

BodyChars == {"0", "A", "."}
CodePrefixes == {<<>>, <<"S", "H">>, <<"s", "z">>, <<"S", "X">>, <<"6">>}
CodePads == {<<>>, <<" ">>}

ClassifierInputs ==
    {l \o p \o b \o r : l \in CodePads, p \in CodePrefixes,
                        b \in SeqsUpTo(BodyChars, MaxBody), r \in CodePads}

(***************************************************************************)
(* Upstream field values and their coercion.                               *)
(***************************************************************************)
Num(x)   == [kind |-> "num", v |-> x]
EmptyStr == [kind |-> "empty", v |-> 0]    \* ''
DashStr  == [kind |-> "dash", v |-> 0]     \* '-'
NullVal  == [kind |-> "null", v |-> 0]     \* None
TextStr  == [kind |-> "text", v |-> 0]     \* a string float() cannot parse
InfVal   == [kind |-> "inf", v |-> 0]      \* the JSON number Infinity (the model has it
                                           \* in the volume field only)

Placeholders == {EmptyStr, DashStr, NullVal}

\* value in ['', '-', None]
IsPlaceholder(value) == value.kind \in {"empty", "dash", "null"}

\* float(value) raises ValueError ('' , '-', text) or TypeError (None)
FloatRaises(value) == value.kind # "num"

safe_float(value) ==
    IF IsPlaceholder(value) THEN 0
    ELSE IF FloatRaises(value) THEN 0
    ELSE value.v

\* int(value) raises OverflowError, which safe_int does not catch
IntOverflows(value) == value.kind = "inf"

\* defined where int(value) does not overflow
safe_int(value) ==
    IF IsPlaceholder(value) THEN 0
    ELSE IF FloatRaises(value) THEN 0
    ELSE value.v

\* an exact fraction n/d with d > 0, and its comparison with an integer k
Frac(n, d) == [n |-> n, d |-> d]
FracLt(p, k) == p.n < k * p.d
FracGt(p, k) == p.n > k * p.d
FracGe(p, k) == p.n >= k * p.d
FracLe(p, k) == p.n <= k * p.d
FracEq(p, k) == p.n = k * p.d

calculate_price_change(current, previous) ==
    [change |-> current - previous,
     pct    |-> IF previous > 0 THEN Frac((current - previous) * 100, previous)
                ELSE Frac(0, 1)]

(***************************************************************************)
(* Technical analysis.  Tokens: trend "Up" = 上漲, "Down" = 下跌,          *)
(* "Flat" = 平盤; trend_strength "strong" = 強勢, "choppy-up" = 震盪上漲,  *)
(* "weak" = 弱勢, "choppy-down" = 震盪下跌, "consolidating" = 盤整;        *)
(* position_desc "near high" = 高檔區（接近今日最高）, "upper-mid" =       *)
(* 中高檔區, "mid" = 中檔區, "lower-mid" = 中低檔區, "near low" =          *)
(* 低檔區（接近今日最低）.                                                 *)
(***************************************************************************)
PricePosition(current, low, high) ==
    IF high > low THEN Frac((current - low) * 100, high - low) ELSE Frac(50, 1)

TrendOf(current, prev_close) ==
    IF current > prev_close THEN "Up"
    ELSE IF current < prev_close THEN "Down"
    ELSE "Flat"

\* a variant that calls a rise to exactly the open strong, and a fall to it weak
TrendStrengthOf_OpenCounts(current, prev_close, open_price) ==
    IF current > prev_close
    THEN (IF current >= open_price THEN "strong" ELSE "choppy-up")
    ELSE IF current < prev_close
    THEN (IF current <= open_price THEN "weak" ELSE "choppy-down")
    ELSE "consolidating"

TrendStrengthOf(current, prev_close, open_price) ==
    IF current > prev_close
    THEN (IF current > open_price THEN "strong" ELSE "choppy-up")
    ELSE IF current < prev_close
    THEN (IF current < open_price THEN "weak" ELSE "choppy-down")
    ELSE "consolidating"

\* a variant whose buckets leave their lower boundary to the bucket below
PositionDesc_OpenBuckets(price_position) ==
    IF FracGt(price_position, 80) THEN "near high"
    ELSE IF FracGt(price_position, 60) THEN "upper-mid"
    ELSE IF FracGt(price_position, 40) THEN "mid"
    ELSE IF FracGt(price_position, 20) THEN "lower-mid"
    ELSE "near low"

PositionDesc(price_position) ==
    IF FracGe(price_position, 80) THEN "near high"
    ELSE IF FracGe(price_position, 60) THEN "upper-mid"
    ELSE IF FracGe(price_position, 40) THEN "mid"
    ELSE IF FracGe(price_position, 20) THEN "lower-mid"
    ELSE "near low"

\* {'error': f"技術分析錯誤: {str(e)}"}: the only key of a failed analysis
AnalysisError(exception) == [error |-> exception]

\* a stock_data that is no dict (a null element of msgArray): .get raises
NotADict == NullVal

\* multi_market_stock_mcp.analyze_technical_indicators; a successful analysis
\* has no 'error' key, which is error = ""
analyze_technical_indicators(stock_data) ==
    IF stock_data = NotADict THEN AnalysisError("analysis-error: AttributeError")
    ELSE IF IntOverflows(stock_data.v) THEN AnalysisError("analysis-error: OverflowError")
    ELSE
    LET current    == safe_float(stock_data.z)
        open_price == safe_float(stock_data.o)
        high       == safe_float(stock_data.h)
        low        == safe_float(stock_data.l)
        prev_close == safe_float(stock_data.y)
        volume     == safe_int(stock_data.v)
        price_position == PricePosition(current, low, high)
    IN [error          |-> "",
        trend          |-> TrendOf(current, prev_close),
        trend_strength |-> TrendStrengthOf(current, prev_close, open_price),
        price_position |-> price_position,
        position_desc  |-> PositionDesc(price_position),
        volume         |-> volume,
        high           |-> high,
        low            |-> low,
        open           |-> open_price,
        current        |-> current,
        prev_close     |-> prev_close]

\* taiwan_stock_mcp.analyze_technical_indicators (the same text, its own copy)
analyze_technical_indicators_tw(stock_data) ==
    IF stock_data = NotADict THEN AnalysisError("analysis-error: AttributeError")
    ELSE IF IntOverflows(stock_data.v) THEN AnalysisError("analysis-error: OverflowError")
    ELSE
    LET current    == safe_float(stock_data.z)
        open_price == safe_float(stock_data.o)
        high       == safe_float(stock_data.h)
        low        == safe_float(stock_data.l)
        prev_close == safe_float(stock_data.y)
        volume     == safe_int(stock_data.v)
        price_position ==
            IF high > low THEN Frac((current - low) * 100, high - low) ELSE Frac(50, 1)
    IN [error          |-> "",
        trend          |-> IF current > prev_close THEN "Up"
                           ELSE IF current < prev_close THEN "Down"
                           ELSE "Flat",
        trend_strength |-> IF current > prev_close
                           THEN (IF current > open_price THEN "strong" ELSE "choppy-up")
                           ELSE IF current < prev_close
                           THEN (IF current < open_price THEN "weak" ELSE "choppy-down")
                           ELSE "consolidating",
        price_position |-> price_position,
        position_desc  |-> IF FracGe(price_position, 80) THEN "near high"
                           ELSE IF FracGe(price_position, 60) THEN "upper-mid"
                           ELSE IF FracGe(price_position, 40) THEN "mid"
                           ELSE IF FracGe(price_position, 20) THEN "lower-mid"
                           ELSE "near low",
        volume         |-> volume,
        high           |-> high,
        low            |-> low,
        open           |-> open_price,
        current        |-> current,
        prev_close     |-> prev_close]

(***************************************************************************)
(* Trading suggestion.  Tokens: action "Buy" = 買進, "Watch/small buy" =    *)
(* 觀望或小量買進, "Watch" = 觀望, "Sell/reduce" = 賣出或減碼,              *)
(* "Consider buy" = 可考慮買進, "cannot analyze" = 無法分析; risk_level     *)
(* "Medium" = 中等, "Medium-high" = 中高, "High" = 高, "Medium-low" = 中低, *)
(* "unknown" = 未知.  A reason is the pair of its template and the         *)
(* position_desc the template embeds.                                      *)
(***************************************************************************)
Suggestion(action, reason, risk_level) ==
    [action |-> action, reason |-> reason, risk_level |-> risk_level]

\* faulty variants of the decision table: one band boundary moved onto its neighbour
DecisionTable_UpInclusive(trend, price_position, position_desc) ==
    IF trend = "Up"
    THEN IF FracLe(price_position, 40)
         THEN Suggestion("Buy", <<"up-momentum", position_desc>>, "Medium")
         ELSE IF FracLt(price_position, 70)
         THEN Suggestion("Watch/small buy", <<"wait-pullback", position_desc>>, "Medium-high")
         ELSE Suggestion("Watch", <<"chasing-risk", position_desc>>, "High")
    ELSE IF trend = "Down"
    THEN IF FracGt(price_position, 60)
         THEN Suggestion("Sell/reduce", <<"reduce", position_desc>>, "Medium-high")
         ELSE IF FracGt(price_position, 30)
         THEN Suggestion("Watch", <<"wait-bottom", position_desc>>, "Medium")
         ELSE Suggestion("Watch/small buy", <<"near-support", position_desc>>, "Medium")
    ELSE IF FracLt(price_position, 30)
         THEN Suggestion("Consider buy", <<"low-risk", position_desc>>, "Medium-low")
         ELSE IF FracGt(price_position, 70)
         THEN Suggestion("Watch", <<"wait-pullback-flat", position_desc>>, "Medium")
         ELSE Suggestion("Watch", <<"consolidating">>, "Medium")

DecisionTable_DownInclusive(trend, price_position, position_desc) ==
    IF trend = "Up"
    THEN IF FracLt(price_position, 40)
         THEN Suggestion("Buy", <<"up-momentum", position_desc>>, "Medium")
         ELSE IF FracLt(price_position, 70)
         THEN Suggestion("Watch/small buy", <<"wait-pullback", position_desc>>, "Medium-high")
         ELSE Suggestion("Watch", <<"chasing-risk", position_desc>>, "High")
    ELSE IF trend = "Down"
    THEN IF FracGt(price_position, 60)
         THEN Suggestion("Sell/reduce", <<"reduce", position_desc>>, "Medium-high")
         ELSE IF FracGe(price_position, 30)
         THEN Suggestion("Watch", <<"wait-bottom", position_desc>>, "Medium")
         ELSE Suggestion("Watch/small buy", <<"near-support", position_desc>>, "Medium")
    ELSE IF FracLt(price_position, 30)
         THEN Suggestion("Consider buy", <<"low-risk", position_desc>>, "Medium-low")
         ELSE IF FracGt(price_position, 70)
         THEN Suggestion("Watch", <<"wait-pullback-flat", position_desc>>, "Medium")
         ELSE Suggestion("Watch", <<"consolidating">>, "Medium")

DecisionTable_FlatInclusive(trend, price_position, position_desc) ==
    IF trend = "Up"
    THEN IF FracLt(price_position, 40)
         THEN Suggestion("Buy", <<"up-momentum", position_desc>>, "Medium")
         ELSE IF FracLt(price_position, 70)
         THEN Suggestion("Watch/small buy", <<"wait-pullback", position_desc>>, "Medium-high")
         ELSE Suggestion("Watch", <<"chasing-risk", position_desc>>, "High")
    ELSE IF trend = "Down"
    THEN IF FracGt(price_position, 60)
         THEN Suggestion("Sell/reduce", <<"reduce", position_desc>>, "Medium-high")
         ELSE IF FracGt(price_position, 30)
         THEN Suggestion("Watch", <<"wait-bottom", position_desc>>, "Medium")
         ELSE Suggestion("Watch/small buy", <<"near-support", position_desc>>, "Medium")
    ELSE IF FracLe(price_position, 30)
         THEN Suggestion("Consider buy", <<"low-risk", position_desc>>, "Medium-low")
         ELSE IF FracGt(price_position, 70)
         THEN Suggestion("Watch", <<"wait-pullback-flat", position_desc>>, "Medium")
         ELSE Suggestion("Watch", <<"consolidating">>, "Medium")

\* the decision table of multi_market_stock_mcp.generate_trading_suggestion
DecisionTable(trend, price_position, position_desc) ==
    IF trend = "Up"
    THEN IF FracLt(price_position, 40)
         THEN Suggestion("Buy", <<"up-momentum", position_desc>>, "Medium")
         ELSE IF FracLt(price_position, 70)
         THEN Suggestion("Watch/small buy", <<"wait-pullback", position_desc>>, "Medium-high")
         ELSE Suggestion("Watch", <<"chasing-risk", position_desc>>, "High")
    ELSE IF trend = "Down"
    THEN IF FracGt(price_position, 60)
         THEN Suggestion("Sell/reduce", <<"reduce", position_desc>>, "Medium-high")
         ELSE IF FracGt(price_position, 30)
         THEN Suggestion("Watch", <<"wait-bottom", position_desc>>, "Medium")
         ELSE Suggestion("Watch/small buy", <<"near-support", position_desc>>, "Medium")
    ELSE IF FracLt(price_position, 30)
         THEN Suggestion("Consider buy", <<"low-risk", position_desc>>, "Medium-low")
         ELSE IF FracGt(price_position, 70)
         THEN Suggestion("Watch", <<"wait-pullback-flat", position_desc>>, "Medium")
         ELSE Suggestion("Watch", <<"consolidating">>, "Medium")

\* faulty variant: the failed analysis is reported without its error text
generate_trading_suggestion_DropsReason(analysis, stock_data) ==
    IF analysis.error # ""
    THEN [action |-> "cannot analyze", reason |-> "analysis-error",
          risk_level |-> "unknown", market |-> "absent"]
    ELSE LET s == DecisionTable(analysis.trend, analysis.price_position,
                                analysis.position_desc)
         IN [action |-> s.action, reason |-> s.reason,
             risk_level |-> s.risk_level, market |-> stock_data.market]

\* multi_market_stock_mcp.generate_trading_suggestion; the result also carries
\* stock_data's market
generate_trading_suggestion(analysis, stock_data) ==
    IF analysis.error # ""
    THEN [action |-> "cannot analyze", reason |-> analysis.error,
          risk_level |-> "unknown", market |-> "absent"]
    ELSE LET s == DecisionTable(analysis.trend, analysis.price_position,
                                analysis.position_desc)
         IN [action |-> s.action, reason |-> s.reason,
             risk_level |-> s.risk_level, market |-> stock_data.market]

\* the decision table of taiwan_stock_mcp.generate_trading_suggestion
DecisionTable_tw(trend, price_position, position_desc) ==
    IF trend = "Up"
    THEN IF FracLt(price_position, 40)
         THEN Suggestion("Buy", <<"up-momentum", position_desc>>, "Medium")
         ELSE IF FracLt(price_position, 70)
         THEN Suggestion("Watch/small buy", <<"wait-pullback", position_desc>>, "Medium-high")
         ELSE Suggestion("Watch", <<"chasing-risk", position_desc>>, "High")
    ELSE IF trend = "Down"
    THEN IF FracGt(price_position, 60)
         THEN Suggestion("Sell/reduce", <<"reduce", position_desc>>, "Medium-high")
         ELSE IF FracGt(price_position, 30)
         THEN Suggestion("Watch", <<"wait-bottom", position_desc>>, "Medium")
         ELSE Suggestion("Watch/small buy", <<"near-support", position_desc>>, "Medium")
    ELSE IF FracLt(price_position, 30)
         THEN Suggestion("Consider buy", <<"low-risk", position_desc>>, "Medium-low")
         ELSE IF FracGt(price_position, 70)
         THEN Suggestion("Watch", <<"wait-pullback-flat", position_desc>>, "Medium")
         ELSE Suggestion("Watch", <<"consolidating">>, "Medium")

\* taiwan_stock_mcp.generate_trading_suggestion; the bid/ask spread it adds is
\* computed inside its own try/except and is left out
generate_trading_suggestion_tw(analysis, stock_data) ==
    IF analysis.error # ""
    THEN [action |-> "cannot analyze", reason |-> analysis.error,
          risk_level |-> "unknown", market |-> "absent"]
    ELSE LET s == DecisionTable_tw(analysis.trend, analysis.price_position,
                                   analysis.position_desc)
         IN [action |-> s.action, reason |-> s.reason,
             risk_level |-> s.risk_level, market |-> "absent"]

(***************************************************************************)
(* The body of the compare loops after the fetch: a comparison row, or the *)
(* per-item error record of the loop's except clause.                      *)
(***************************************************************************)
ErrorRecord(code, message) == [kind |-> "error", code |-> code, error |-> message]

\* multi_market_stock_mcp.compare_multi_market_stocks, lines 800-817
CompareRow(code, stock_info) ==
    LET analysis   == analyze_technical_indicators(stock_info)
        suggestion == generate_trading_suggestion(analysis, stock_info)
        current    == safe_float(stock_info.z)
        prev_close == safe_float(stock_info.y)
    IN [kind       |-> "row",
        code       |-> code,
        price      |-> current,
        change     |-> calculate_price_change(current, prev_close).pct,
        trend      |-> IF analysis.error # "" THEN "N/A" ELSE analysis.trend,
        position   |-> IF analysis.error # "" THEN Frac(0, 1) ELSE analysis.price_position,
        suggestion |-> suggestion.action,
        risk       |-> suggestion.risk_level]

\* taiwan_stock_mcp.compare_stocks, lines 616-632: the price and the previous
\* close go through float(), which raises on '', '-' and None
CompareRow_tw(code, stock_info) ==
    LET analysis   == analyze_technical_indicators_tw(stock_info)
        suggestion == generate_trading_suggestion_tw(analysis, stock_info)
    IN IF FloatRaises(stock_info.z) \/ FloatRaises(stock_info.y)
       THEN ErrorRecord(code, <<"float() failed">>)
       ELSE [kind       |-> "row",
             code       |-> code,
             price      |-> stock_info.z.v,
             change     |-> calculate_price_change(stock_info.z.v, stock_info.y.v).pct,
             trend      |-> IF analysis.error # "" THEN "N/A" ELSE analysis.trend,
             position   |-> IF analysis.error # "" THEN Frac(0, 1)
                            ELSE analysis.price_position,
             suggestion |-> suggestion.action,
             risk       |-> suggestion.risk_level]

(***************************************************************************)
(* Quotes handed to the analysis: a numeric grid that reaches every band   *)
(* boundary of the decision table, a grid in which every field may be a    *)
(* placeholder, and the worked example of the specification.               *)
(***************************************************************************)
MaxPrice == 12
MaxSmall == 1

Quote(z, y, o, h, l, v) ==
    [market |-> "taiwan", c |-> <<>>, z |-> z, y |-> y, o |-> o, h |-> h, l |-> l, v |-> v]

NumericQuotes ==
    {Quote(Num(z), Num(y), Num(o), Num(h), Num(l), Num(1000)) :
        z \in 0..MaxPrice, y \in 0..MaxPrice, o \in {0, 5}, h \in {2, 10}, l \in {0, 2}}

SmallVals == Placeholders \cup {Num(x) : x \in 0..MaxSmall}

PlaceholderQuotes ==
    {Quote(z, y, o, h, l, v) :
        z \in SmallVals, y \in SmallVals, o \in SmallVals, h \in SmallVals,
        l \in SmallVals, v \in Placeholders \cup {Num(1000)}}

ExampleQuote == Quote(Num(105), Num(100), Num(102), Num(110), Num(95), Num(1000))

\* stock_data no analysis can be made of: no dict, or a volume of Infinity
UnanalyzableInputs ==
    {NotADict}
    \cup {Quote(Num(z), Num(y), Num(5), Num(10), Num(0), InfVal) :
            z \in 0..MaxPrice, y \in 0..MaxPrice}

AnalysisInputs ==
    NumericQuotes \cup PlaceholderQuotes \cup {ExampleQuote} \cup UnanalyzableInputs

(***************************************************************************)
(* Failures.  An exception is the sequence of the parts of its message;    *)
(* an adapter prefixes the message of whatever it caught.  Tokens:         *)
(* "taiwan-failed" = 查詢台股失敗, "china-failed" = 查詢A股失敗,           *)
(* "us-failed" = 查詢美股失敗, "not-found" = 找不到股票代碼 (followed by   *)
(* the code), "no-data" = 無數據，可能非交易時段或代碼錯誤, "format-error" *)
(* = 數據格式錯誤或市場休市, "connect-failed" = 無法連接證交所 API,        *)
(* "bad-json" = API 回應格式錯誤, "api-error" = API 回應錯誤 (followed by  *)
(* rtmessage); the other tokens name the Python exception raised.          *)
(***************************************************************************)
Ok(quote)     == [ok |-> TRUE, quote |-> quote, error |-> <<>>]
Failed(error) == [ok |-> FALSE, quote |-> <<>>, error |-> error]

(***************************************************************************)
(* Text of the China endpoint.  A body is a sequence of lexemes: the       *)
(* characters the adapter looks for ('=', '"', '~', blank, ';', and '_' of *)
(* the order-book strings) and, as one lexeme each, the field texts        *)
(* between them (a tagged value).  find, rfind, slicing, split and join    *)
(* are computed on that sequence.                                          *)
(***************************************************************************)
Ch(name) == [kind |-> name, v |-> 0]

\* content.find('="'): the 0-based index of the first occurrence, or -1
FindMarker(content) ==
    LET hits == {i \in 1..(Len(content) - 1) :
                    content[i] = Ch("eq") /\ content[i + 1] = Ch("quote")}
    IN IF hits = {} THEN -1 ELSE (CHOOSE i \in hits : \A j \in hits : i <= j) - 1

\* content.rfind('"'): the 0-based index of the last occurrence, or -1
RFindQuote(content) ==
    LET hits == {i \in DOMAIN content : content[i] = Ch("quote")}
    IN IF hits = {} THEN -1 ELSE (CHOOSE i \in hits : \A j \in hits : i >= j) - 1

\* content[start:end] for 0 <= start and 0 <= end <= len(content)
Slice(content, start, end) ==
    IF start >= end THEN <<>> ELSE SubSeq(content, start + 1, end)

\* str.split(sep)
RECURSIVE Split(_, _)
Split(text, sep) ==
    LET hits == {i \in DOMAIN text : text[i] = sep} IN
    IF hits = {} THEN <<text>>
    ELSE LET i == CHOOSE i \in hits : \A j \in hits : i <= j
         IN <<SubSeq(text, 1, i - 1)>> \o Split(SubSeq(text, i + 1, Len(text)), sep)

\* sep.join(texts)
RECURSIVE Join(_, _)
Join(texts, sep) ==
    IF texts = <<>> THEN <<>>
    ELSE IF Len(texts) = 1 THEN texts[1]
    ELSE texts[1] \o <<sep>> \o Join(Tail(texts), sep)

\* content.strip() == ''
IsBlank(content) == \A i \in DOMAIN content : content[i] = Ch("space")

\* the value a field text is to float() and to a truth test
FieldValue(text) ==
    IF text = <<>> THEN EmptyStr ELSE IF Len(text) = 1 THEN text[1] ELSE TextStr

\* the text of a value
FieldText(value) == IF value = EmptyStr THEN <<>> ELSE <<value>>

(***************************************************************************)
(* China A-share adapter.  A response is a transport failure or a body;    *)
(* parts[k] of the source is Part(parts, k).                               *)
(***************************************************************************)
MinFields == 40
VolumeUnit == 100
BookDepth == 5

Part(parts, k) == parts[k + 1]

\* faulty variant: a code of no known prefix is sent to Shenzhen
TencentCode_DefaultSz(stock_code) ==
    LET upper == Strip(Upper(stock_code))
        code  == IF StartsWith(upper, <<"S", "H">>) \/ StartsWith(upper, <<"S", "Z">>)
                 THEN SubSeq(upper, 3, Len(upper))
                 ELSE upper
    IN IF StartsWith(code, <<"6", "0">>) \/ StartsWith(code, <<"6", "8", "8">>)
          \/ StartsWith(code, <<"6", "8", "9">>)
       THEN <<"s", "h">> \o code
       ELSE <<"s", "z">> \o code

\* faulty variant: a given SH/SZ prefix is kept as the exchange
TencentCode_KeepsPrefix(stock_code) ==
    LET upper == Strip(Upper(stock_code))
        given == StartsWith(upper, <<"S", "H">>) \/ StartsWith(upper, <<"S", "Z">>)
        code  == IF given THEN SubSeq(upper, 3, Len(upper)) ELSE upper
    IN IF given THEN (IF upper[2] = "H" THEN <<"s", "h">> ELSE <<"s", "z">>) \o code
       ELSE IF StartsWith(code, <<"6", "0">>) \/ StartsWith(code, <<"6", "8", "8">>)
          \/ StartsWith(code, <<"6", "8", "9">>)
       THEN <<"s", "h">> \o code
       ELSE IF StartsWith(code, <<"0", "0">>) \/ StartsWith(code, <<"3", "0">>)
               \/ StartsWith(code, <<"0", "0", "2">>)
       THEN <<"s", "z">> \o code
       ELSE <<"s", "h">> \o code

\* the symbol queried: sh or sz, then the code without a given SH/SZ prefix
TencentCode(stock_code) ==
    LET upper == Strip(Upper(stock_code))
        code  == IF StartsWith(upper, <<"S", "H">>) \/ StartsWith(upper, <<"S", "Z">>)
                 THEN SubSeq(upper, 3, Len(upper))
                 ELSE upper
    IN IF StartsWith(code, <<"6", "0">>) \/ StartsWith(code, <<"6", "8", "8">>)
          \/ StartsWith(code, <<"6", "8", "9">>)
       THEN <<"s", "h">> \o code
       ELSE IF StartsWith(code, <<"0", "0">>) \/ StartsWith(code, <<"3", "0">>)
               \/ StartsWith(code, <<"0", "0", "2">>)
       THEN <<"s", "z">> \o code
       ELSE <<"s", "h">> \o code

\* 'v': str(int(float(parts[6]) / 100)) if parts[6] else '0'
ChinaVolume(raw) == IF raw.kind = "empty" THEN Num(0) ELSE Num(raw.v \div VolumeUnit)

\* faulty variant: a payload one field short is accepted
TooFewFields_OneShort(parts) == Len(parts) < MinFields - 1

\* len(parts) < 40
TooFewFields(parts) == Len(parts) < MinFields

\* '_'.join([parts[first], parts[first + 4], ...]) over the five levels
BookString(parts, first) ==
    Join([k \in 1..BookDepth |-> Part(parts, first + 4 * (k - 1))], Ch("underscore"))

get_china_stock_quote(stock_code, response) ==
    IF response.kind = "http_error"
    THEN Failed(<<"china-failed", "HTTPError">>)
    ELSE LET content == response.content IN
    IF FindMarker(content) = -1 \/ IsBlank(content)
    THEN Failed(<<"china-failed", "not-found", stock_code>>)
    ELSE LET data_str == Slice(content, FindMarker(content) + 2, RFindQuote(content)) IN
    IF data_str = <<>>
    THEN Failed(<<"china-failed", "no-data", stock_code>>)
    ELSE LET parts == Split(data_str, Ch("tilde")) IN
         IF TooFewFields(parts)
         THEN Failed(<<"china-failed", "format-error">>)
         ELSE IF Part(parts, 6) # <<>> /\ FloatRaises(FieldValue(Part(parts, 6)))
         THEN Failed(<<"china-failed", "ValueError">>)
         ELSE Ok([market |-> "china",
                  c |-> Upper(TencentCode(stock_code)),
                  z |-> FieldValue(Part(parts, 3)),
                  y |-> FieldValue(Part(parts, 4)),
                  o |-> FieldValue(Part(parts, 5)),
                  h |-> FieldValue(Part(parts, 33)),
                  l |-> FieldValue(Part(parts, 34)),
                  v |-> ChinaVolume(FieldValue(Part(parts, 6))),
                  b |-> BookString(parts, 9),
                  g |-> BookString(parts, 10),
                  a |-> BookString(parts, 11),
                  f |-> BookString(parts, 12)])

(***************************************************************************)
(* US adapter.  A response is a transport failure, a body that is not JSON *)
(* or a JSON document; of the document the model keeps what the adapter    *)
(* reads: whether chart, chart.result, result[0].meta and                  *)
(* result[0].indicators.quote[0] are there, the prices of meta, and the    *)
(* open/high/low/volume arrays (absent, empty, or a list with its last     *)
(* element).                                                               *)
(***************************************************************************)
\* quote[name][-1] if quote.get(name) else 0
LastOrZero(array) == IF array.kind = "list" THEN array.last ELSE Num(0)

\* meta.get('previousClose', meta.get('chartPreviousClose', 0))
PrevClose(meta) ==
    IF meta.previousClose.kind # "absent" THEN meta.previousClose
    ELSE IF meta.chartPreviousClose.kind # "absent" THEN meta.chartPreviousClose
    ELSE Num(0)

\* meta.get('regularMarketPrice', 0)
CurrentPrice(meta) ==
    IF meta.regularMarketPrice.kind # "absent" THEN meta.regularMarketPrice ELSE Num(0)

get_us_stock_quote(stock_code, response) ==
    LET symbol == Strip(Upper(stock_code)) IN
    IF response.kind = "http_error"
    THEN Failed(<<"us-failed", "HTTPError">>)
    ELSE IF response.kind = "bad_json"
    THEN Failed(<<"us-failed", "JSONDecodeError">>)
    ELSE IF response.chart = "absent" \/ response.result = "absent"
    THEN Failed(<<"us-failed", "not-found", symbol>>)
    ELSE IF response.result = "null"
    THEN Failed(<<"us-failed", "TypeError">>)
    ELSE IF response.result = "empty"
    THEN Failed(<<"us-failed", "IndexError">>)
    ELSE IF response.meta.kind = "absent" \/ response.quote.kind = "absent"
    THEN Failed(<<"us-failed", "KeyError">>)
    ELSE LET quote == response.quote IN
         IF quote.volume.kind = "list" /\ quote.volume.last.kind # "num"
         THEN Failed(<<"us-failed", "TypeError">>)
         ELSE Ok([market |-> "us",
                  c |-> symbol,
                  z |-> CurrentPrice(response.meta),
                  y |-> PrevClose(response.meta),
                  o |-> LastOrZero(quote.open),
                  h |-> LastOrZero(quote.high),
                  l |-> LastOrZero(quote.low),
                  v |-> IF quote.volume.kind = "list"
                        THEN Num(quote.volume.last.v \div VolumeUnit)
                        ELSE Num(0)])

(***************************************************************************)
(* Inputs of the adapters.                                                 *)
(***************************************************************************)
FieldSlack == 2

\* 6-digit codes of every class of leading digits, each with what a caller may
\* put in front: nothing, SH or SZ in any letter case (the prefixes that
\* disagree with the digits included)
ChinaCodes ==
    {prefix \o digits :
        prefix \in {<<>>} \cup {<<s, x>> : s \in {"S", "s"}, x \in {"H", "h", "Z", "z"}},
        digits \in {<<"6", "0", "0", "5", "1", "9">>, <<"0", "0", "0", "0", "0", "1">>,
                    <<"6", "8", "8", "0", "0", "1">>, <<"6", "8", "9", "0", "0", "9">>,
                    <<"3", "0", "0", "7", "5", "0">>, <<"0", "0", "2", "5", "9", "4">>,
                    <<"8", "3", "0", "7", "9", "9">>}}

\* field k of a payload holds the number k, field 6 (the volume) is as given
ChinaParts(nfields, volume) ==
    [i \in 1..nfields |-> IF i = 7 THEN volume ELSE Num(i - 1)]

ChinaVolumes == {EmptyStr, DashStr, TextStr, Num(0), Num(123456)}

\* the text of a payload: its fields joined by '~'
PayloadText(parts) ==
    Join([i \in DOMAIN parts |-> FieldText(parts[i])], Ch("tilde"))

\* v_sh600519="<payload>";
ChinaBody(payload) == <<TextStr, Ch("eq"), Ch("quote")>> \o payload \o <<Ch("quote"), Ch("semi")>>

ChinaHttpError == [kind |-> "http_error", content |-> <<>>]
ChinaContent(content) == [kind |-> "body", content |-> content]

ChinaPayloads ==
    {ChinaContent(ChinaBody(PayloadText(ChinaParts(n, volume)))) :
        n \in {1} \cup ((MinFields - FieldSlack)..(MinFields + FieldSlack)),
        volume \in ChinaVolumes}

\* bodies with no payload to read: empty, blank, no '="', '="' and nothing
\* quoted after it, and a payload whose closing quote is missing
ChinaMalformed ==
    {ChinaContent(<<>>),
     ChinaContent(<<Ch("space"), Ch("space")>>),
     ChinaContent(<<TextStr>>),
     ChinaContent(<<TextStr, Ch("eq"), TextStr, Ch("semi")>>),
     ChinaContent(<<TextStr, Ch("quote"), Ch("eq"), Ch("semi")>>),
     ChinaContent(ChinaBody(<<>>)),
     ChinaContent(<<TextStr, Ch("eq"), Ch("quote")>>),
     ChinaContent(<<TextStr, Ch("eq"), Ch("quote")>>
                  \o PayloadText(ChinaParts(MinFields, Num(123456))))}

ChinaResponses == {ChinaHttpError} \cup ChinaMalformed \cup ChinaPayloads

Absent == [kind |-> "absent", v |-> 0]

UsArrays ==
    {[kind |-> "absent", last |-> NullVal], [kind |-> "empty", last |-> NullVal],
     [kind |-> "list", last |-> NullVal], [kind |-> "list", last |-> Num(110)],
     [kind |-> "list", last |-> Num(123456)]}

UsMetas ==
    {[kind |-> "present", regularMarketPrice |-> z, previousClose |-> y,
      chartPreviousClose |-> cy] :
        z \in {Absent, Num(105)}, y \in {Absent, Num(100)}, cy \in {Absent, Num(99)}}

UsQuotes ==
    {[kind |-> "present", open |-> o, high |-> h, low |-> l, volume |-> v] :
        o \in UsArrays, h \in UsArrays, l \in UsArrays, v \in UsArrays}

NoMeta  == [kind |-> "absent", regularMarketPrice |-> Absent, previousClose |-> Absent,
            chartPreviousClose |-> Absent]
NoQuote == [kind |-> "absent", open |-> [kind |-> "absent", last |-> NullVal],
            high |-> [kind |-> "absent", last |-> NullVal],
            low |-> [kind |-> "absent", last |-> NullVal],
            volume |-> [kind |-> "absent", last |-> NullVal]]

UsEnvelope(kind, chart, result, meta, quote) ==
    [kind |-> kind, chart |-> chart, result |-> result, meta |-> meta, quote |-> quote]

UsResponses ==
    {UsEnvelope("http_error", "absent", "absent", NoMeta, NoQuote),
     UsEnvelope("bad_json", "absent", "absent", NoMeta, NoQuote),
     UsEnvelope("json", "absent", "absent", NoMeta, NoQuote),
     UsEnvelope("json", "present", "absent", NoMeta, NoQuote),
     UsEnvelope("json", "present", "null", NoMeta, NoQuote),
     UsEnvelope("json", "present", "empty", NoMeta, NoQuote)}
    \cup {UsEnvelope("json", "present", "list", NoMeta, quote) : quote \in UsQuotes}
    \cup {UsEnvelope("json", "present", "list", meta, NoQuote) : meta \in UsMetas}
    \cup {UsEnvelope("json", "present", "list", meta, quote) :
            meta \in UsMetas, quote \in UsQuotes}

UsCodes == {<<"A", "A", "P", "L">>, <<"t", "s", "l", "a">>, <<" ", "N", "V", "D", "A">>}

(***************************************************************************)
(* Taiwan exchange endpoint.  A response is a transport failure            *)
(* (httpx.HTTPError: no connection, timeout, HTTP error status), a body    *)
(* that is not JSON, or a JSON envelope with rtcode, rtmessage, msgArray.  *)
(***************************************************************************)
SuccessCode == "0000"

\* data.get('rtmessage', 'Unknown error'); a missing key is the message "absent"
RtMessage(response) ==
    IF response.rtmessage = "absent" THEN "Unknown error" ELSE response.rtmessage

\* faulty variant: the status code of the envelope is not looked at
fetch_taiwan_stock_data_IgnoresStatus(response) ==
    IF response.kind = "http_error" THEN Failed(<<"connect-failed", "HTTPError">>)
    ELSE IF response.kind = "bad_json" THEN Failed(<<"bad-json">>)
    ELSE Ok(response.msgArray)

fetch_taiwan_stock_data(response) ==
    IF response.kind = "http_error" THEN Failed(<<"connect-failed", "HTTPError">>)
    ELSE IF response.kind = "bad_json" THEN Failed(<<"bad-json">>)
    ELSE IF response.rtcode # SuccessCode THEN Failed(<<"api-error", RtMessage(response)>>)
    ELSE Ok(response.msgArray)

\* taiwan_stock_mcp.fetch_stock_data (the same text, its own copy)
fetch_stock_data(response) ==
    IF response.kind = "http_error" THEN Failed(<<"connect-failed", "HTTPError">>)
    ELSE IF response.kind = "bad_json" THEN Failed(<<"bad-json">>)
    ELSE IF response.rtcode # SuccessCode THEN Failed(<<"api-error", RtMessage(response)>>)
    ELSE Ok(response.msgArray)

\* what the caller of a lookup step does next: query the OTC venue, or return
Return(result) == [next |-> "return", result |-> result]
QueryOtc       == [next |-> "otc", result |-> <<>>]

\* faulty variant: the OTC venue is tried after any listed-venue answer that
\* gave no quote, a failed request included
get_taiwan_stock_quote_OtcOnFailure(stock_code, exchange, response) ==
    LET data == fetch_taiwan_stock_data(response) IN
    IF data.ok /\ data.quote # <<>>
    THEN Return(Ok([data.quote[1] EXCEPT !.market = "taiwan"]))
    ELSE IF exchange = "tse" THEN QueryOtc
    ELSE IF ~data.ok THEN Return(Failed(<<"taiwan-failed">> \o data.error))
    ELSE Return(Failed(<<"taiwan-failed", "not-found", stock_code>>))

\* faulty variant: not found as soon as the listed venue has nothing
get_taiwan_stock_quote_NoOtc(stock_code, exchange, response) ==
    LET data == fetch_taiwan_stock_data(response) IN
    IF ~data.ok THEN Return(Failed(<<"taiwan-failed">> \o data.error))
    ELSE IF data.quote # <<>>
    THEN Return(Ok([data.quote[1] EXCEPT !.market = "taiwan"]))
    ELSE Return(Failed(<<"taiwan-failed", "not-found", stock_code>>))

\* multi_market_stock_mcp.get_taiwan_stock_quote, resumed with the response of
\* the request to `exchange`
get_taiwan_stock_quote(stock_code, exchange, response) ==
    LET data == fetch_taiwan_stock_data(response) IN
    IF ~data.ok THEN Return(Failed(<<"taiwan-failed">> \o data.error))
    ELSE IF data.quote # <<>>
    THEN Return(Ok([data.quote[1] EXCEPT !.market = "taiwan"]))
    ELSE IF exchange = "tse" THEN QueryOtc
    ELSE Return(Failed(<<"taiwan-failed", "not-found", stock_code>>))

\* the lookup every tool of taiwan_stock_mcp spells out: tse, then otc when
\* msgArray is empty; "not-found" is the outcome of the second empty msgArray
lookup_tw(stock_code, exchange, response) ==
    LET data == fetch_stock_data(response) IN
    IF ~data.ok THEN Return(Failed(data.error))
    ELSE IF data.quote = <<>> /\ exchange = "tse" THEN QueryOtc
    ELSE IF data.quote = <<>> THEN Return(Failed(<<"not-found", stock_code>>))
    ELSE Return(Ok(data.quote[1]))

IsNotFound_tw(result) == ~result.ok /\ result.error[1] = "not-found"

\* faulty variant: the classifier decides, whatever market was asked for
Route_AlwaysDetects(stock_code, requested) ==
    LET m == detect_market(stock_code) IN
    IF m = "taiwan" THEN "tse" ELSE m

\* get_stock_quote: the adapter a code is routed to
Route(stock_code, requested) ==
    LET m == IF requested = "auto" THEN detect_market(stock_code) ELSE requested IN
    IF m = "taiwan" THEN "tse" ELSE m

(***************************************************************************)
(* Rendering.  A markdown text is the record of what it shows: the heading *)
(* and the label of the price line ("live" = 即時報價, "last" = 成交價,    *)
(* "close info" = 收盤資訊, "close" = 收盤價), the price, the change shown *)
(* (a number, or '-'), the after-hours note, the rows of the five-level    *)
(* table and the analysis section.  A rendering that raised is the error   *)
(* text of format_stock_markdown's except clause.                          *)
(***************************************************************************)
Min(a, b) == IF a < b THEN a ELSE b

\* stock_data.get(key, '').split('_')[:5]
Levels(text) ==
    LET all == Split(text, Ch("underscore")) IN SubSeq(all, 1, Min(Len(all), BookDepth))

\* levels[i] if i < len(levels) else '-'   (i counted from 1 here)
BookCell(levels, i) == IF i <= Len(levels) THEN levels[i] ELSE <<DashStr>>

BookRows(stock_data) ==
    [i \in 1..BookDepth |->
        [bid_vol   |-> BookCell(Levels(stock_data.g), i),
         bid_price |-> BookCell(Levels(stock_data.b), i),
         ask_price |-> BookCell(Levels(stock_data.a), i),
         ask_vol   |-> BookCell(Levels(stock_data.f), i)]]

FormatError(exception) == [kind |-> "format-error", error |-> exception]

\* the analysis section: analysis.get('trend', 'N/A') and the suggestion
AnalysisSection(analysis, suggestion) ==
    [trend      |-> IF analysis.error # "" THEN "N/A" ELSE analysis.trend,
     suggestion |-> suggestion]

NoSection == [trend |-> "absent", suggestion |-> <<>>]

\* multi_market_stock_mcp.format_stock_markdown
format_stock_markdown(stock_data, include_analysis) ==
    LET current    == safe_float(stock_data.z)
        prev_close == safe_float(stock_data.y)
        analysis   == analyze_technical_indicators(stock_data)
    IN [kind        |-> "markdown",
        heading     |-> "live",
        price_label |-> "last",
        price       |-> current,
        change      |-> Num(calculate_price_change(current, prev_close).change),
        after_hours |-> FALSE,
        book        |-> IF stock_data.market \in {"taiwan", "china"}
                        THEN BookRows(stock_data) ELSE <<>>,
        analysis    |-> IF include_analysis
                        THEN AnalysisSection(analysis,
                                 generate_trading_suggestion(analysis, stock_data))
                        ELSE NoSection]

\* taiwan_stock_mcp.format_stock_markdown; suggestion['spread'] is a key the
\* suggestion of a failed analysis does not have
format_stock_markdown_tw(stock_data, include_analysis) ==
    LET current        == safe_float(stock_data.z)
        prev_close     == safe_float(stock_data.y)
        is_after_hours == IsPlaceholder(stock_data.z) \/ current = 0
        analysis       == analyze_technical_indicators_tw(stock_data)
    IN IF include_analysis /\ analysis.error # ""
       THEN FormatError("KeyError: spread")
       ELSE [kind        |-> "markdown",
             heading     |-> IF is_after_hours THEN "close info" ELSE "live",
             price_label |-> IF is_after_hours THEN "close" ELSE "last",
             price       |-> IF is_after_hours THEN prev_close ELSE current,
             change      |-> IF is_after_hours THEN DashStr
                             ELSE Num(calculate_price_change(current, prev_close).change),
             after_hours |-> is_after_hours,
             book        |-> BookRows(stock_data),
             analysis    |-> IF include_analysis
                             THEN AnalysisSection(analysis,
                                      generate_trading_suggestion_tw(analysis, stock_data))
                             ELSE NoSection]

(***************************************************************************)
(* The tools and the bodies of their loops.  A loop body gives the records *)
(* it appends and whether it reaches its asyncio.sleep.                    *)
(***************************************************************************)
MultiBatchTools  == {"get_multiple_market_stocks_quotes", "compare_multi_market_stocks"}
TaiwanBatchTools == {"get_multiple_stocks_quotes", "compare_stocks"}
MultiTools  == MultiBatchTools \cup {"get_universal_stock_quote", "analyze_universal_stock"}
TaiwanTools ==
    TaiwanBatchTools \cup {"get_stock_realtime_quote", "analyze_stock_with_suggestion"}
BatchTools  == MultiBatchTools \cup TaiwanBatchTools

QuoteRecord(quote) == [kind |-> "quote", code |-> quote.c, quote |-> quote]
Step(records, sleeps) == [records |-> records, sleeps |-> sleeps]

\* faulty variant: a failed item is skipped instead of recorded
get_multiple_market_stocks_quotes_SkipsFailed(code, result) ==
    IF result.ok THEN Step(<<QuoteRecord(result.quote)>>, TRUE)
    ELSE Step(<<>>, FALSE)

\* multi_market_stock_mcp.get_multiple_market_stocks_quotes, lines 707-716
get_multiple_market_stocks_quotes(code, result) ==
    IF result.ok THEN Step(<<QuoteRecord(result.quote)>>, TRUE)
    ELSE Step(<<ErrorRecord(code, result.error)>>, FALSE)

\* multi_market_stock_mcp.compare_multi_market_stocks, lines 797-825
compare_multi_market_stocks(code, result) ==
    IF result.ok THEN Step(<<CompareRow(code, result.quote)>>, TRUE)
    ELSE Step(<<ErrorRecord(code, result.error)>>, FALSE)

\* taiwan_stock_mcp.get_multiple_stocks_quotes, lines 491-507
get_multiple_stocks_quotes(code, result) ==
    IF result.ok THEN Step(<<QuoteRecord(result.quote)>>, TRUE)
    ELSE IF IsNotFound_tw(result) THEN Step(<<ErrorRecord(code, <<"no-data">>)>>, TRUE)
    ELSE Step(<<ErrorRecord(code, result.error)>>, FALSE)

\* taiwan_stock_mcp.compare_stocks, lines 609-640
compare_stocks(code, result) ==
    IF result.ok
    THEN LET row == CompareRow_tw(code, result.quote) IN
         Step(<<row>>, row.kind = "row")
    ELSE IF IsNotFound_tw(result) THEN Step(<<>>, TRUE)
    ELSE Step(<<ErrorRecord(code, result.error)>>, FALSE)

LoopBody(t, code, result) ==
    IF t = "get_multiple_market_stocks_quotes"
    THEN get_multiple_market_stocks_quotes(code, result)
    ELSE IF t = "compare_multi_market_stocks" THEN compare_multi_market_stocks(code, result)
    ELSE IF t = "get_multiple_stocks_quotes" THEN get_multiple_stocks_quotes(code, result)
    ELSE compare_stocks(code, result)

\* the str a tool returns: a kind and what the text says.  For a tool with a
\* response_format the body gives the text of either format: the value that
\* json.dumps writes and the markdown rendering.  Tokens: "query-failed" =
\* ❌ 查詢失敗, "analysis-failed" = ❌ 分析失敗.
Text(kind, body) == [kind |-> kind, body |-> body]

Formats(json, markdown) == [json |-> json, markdown |-> markdown]

\* the JSON document of the analysis tools
AnalysisReport(stock_info, analysis, suggestion) ==
    [stock_info |-> stock_info, technical_analysis |-> analysis,
     trading_suggestion |-> suggestion]

\* multi_market_stock_mcp.get_universal_stock_quote, lines 670-679
get_universal_stock_quote(result) ==
    IF result.ok
    THEN Text("quote", Formats(result.quote, format_stock_markdown(result.quote, FALSE)))
    ELSE Text("failure", <<"query-failed">> \o result.error)

\* faulty variant: the failure of the lookup leaves the tool as an exception
analyze_universal_stock_Propagates(result) ==
    IF result.ok
    THEN LET analysis   == analyze_technical_indicators(result.quote)
             suggestion == generate_trading_suggestion(analysis, result.quote)
         IN Text("analysis",
                 Formats(AnalysisReport(result.quote, analysis, suggestion),
                         format_stock_markdown(result.quote, TRUE)))
    ELSE Text("raised", result.error)

\* multi_market_stock_mcp.analyze_universal_stock, lines 759-775
analyze_universal_stock(result) ==
    IF result.ok
    THEN LET analysis   == analyze_technical_indicators(result.quote)
             suggestion == generate_trading_suggestion(analysis, result.quote)
         IN Text("analysis",
                 Formats(AnalysisReport(result.quote, analysis, suggestion),
                         format_stock_markdown(result.quote, TRUE)))
    ELSE Text("failure", <<"analysis-failed">> \o result.error)

\* taiwan_stock_mcp.get_stock_realtime_quote, lines 441-460
get_stock_realtime_quote(result) ==
    IF result.ok
    THEN Text("quote", Formats(result.quote, format_stock_markdown_tw(result.quote, FALSE)))
    ELSE IF IsNotFound_tw(result) THEN Text("failure", result.error)
    ELSE Text("failure", <<"query-failed">> \o result.error)

\* taiwan_stock_mcp.analyze_stock_with_suggestion, lines 557-585
analyze_stock_with_suggestion(result) ==
    IF result.ok
    THEN LET analysis   == analyze_technical_indicators_tw(result.quote)
             suggestion == generate_trading_suggestion_tw(analysis, result.quote)
         IN Text("analysis",
                 Formats(AnalysisReport(result.quote, analysis, suggestion),
                         format_stock_markdown_tw(result.quote, TRUE)))
    ELSE IF IsNotFound_tw(result) THEN Text("failure", result.error)
    ELSE Text("failure", <<"analysis-failed">> \o result.error)

\* what a single-item tool returns for the result of its lookup
SingleItem(t, result) ==
    IF t = "get_universal_stock_quote" THEN get_universal_stock_quote(result)
    ELSE IF t = "analyze_universal_stock" THEN analyze_universal_stock(result)
    ELSE IF t = "get_stock_realtime_quote" THEN get_stock_realtime_quote(result)
    ELSE analyze_stock_with_suggestion(result)

(***************************************************************************)
(* Inputs of the tools and the answers of the upstreams while serving.     *)
(***************************************************************************)
MaxBatch == 2

TaiwanCode == <<"2", "3", "3", "0">>
OtcCode    == <<"6", "4", "8", "8">>
ChinaCode  == <<"S", "H", "6", "0", "0", "5", "1", "9">>
UsCode     == <<"A", "A", "P", "L">>

CodeLists(codes) == SeqsUpTo(codes, MaxBatch) \ {<<>>}

\* an order-book string of the exchange: every level followed by '_'
RECURSIVE TwseBook(_)
TwseBook(values) ==
    IF values = <<>> THEN <<>>
    ELSE <<Num(Head(values)), Ch("underscore")>> \o TwseBook(Tail(values))

\* the four order-book strings of a quote
Book(b, g, a, f) == [b |-> b, g |-> g, a |-> a, f |-> f]

\* five levels on either side
FullBook ==
    Book(TwseBook(<<104, 103, 102, 101, 100>>), TwseBook(<<10, 20, 30, 40, 50>>),
         TwseBook(<<105, 106, 107, 108, 109>>), TwseBook(<<11, 21, 31, 41, 51>>))

\* three bids, and '-' for no ask at all
ThinBook ==
    Book(TwseBook(<<104, 103, 102>>), TwseBook(<<10, 20, 30>>), <<DashStr>>, <<DashStr>>)

\* what the exchange sends for a code: the code, no market, the price fields,
\* the order book
UpstreamQuoteWith(code, z, v, book) ==
    [market |-> "unset", c |-> code, z |-> z, y |-> Num(100), o |-> Num(102),
     h |-> Num(110), l |-> Num(95), v |-> v,
     b |-> book.b, g |-> book.g, a |-> book.a, f |-> book.f]

UpstreamQuote(code, z) == UpstreamQuoteWith(code, z, Num(1000), FullBook)

EnvelopeWith(kind, rtcode, rtmessage, msgArray) ==
    [kind |-> kind, rtcode |-> rtcode, rtmessage |-> rtmessage, msgArray |-> msgArray]

Envelope(kind, rtcode, msgArray) ==
    EnvelopeWith(kind, rtcode, "upstream message", msgArray)

\* after the empty answer: a live quote, an after-hours quote, a quote with a
\* thin order book, a quote with a volume of Infinity; the last three: a status
\* other than the success code, with nothing in msgArray, with a quote in it
\* all the same, and without an rtmessage
TaiwanResponses(code) ==
    {Envelope("http_error", "", <<>>), Envelope("bad_json", "", <<>>),
     Envelope("json", SuccessCode, <<>>),
     Envelope("json", SuccessCode, <<UpstreamQuote(code, Num(105))>>),
     Envelope("json", SuccessCode, <<UpstreamQuote(code, DashStr)>>),
     Envelope("json", SuccessCode, <<UpstreamQuoteWith(code, Num(105), Num(1000), ThinBook)>>),
     Envelope("json", SuccessCode, <<UpstreamQuoteWith(code, Num(105), InfVal, FullBook)>>),
     Envelope("json", "9999", <<>>),
     Envelope("json", "9999", <<UpstreamQuote(code, Num(105))>>),
     EnvelopeWith("json", "9999", "absent", <<>>)}

ServedChinaResponses ==
    {ChinaHttpError, ChinaContent(<<TextStr>>),
     ChinaContent(ChinaBody(PayloadText(ChinaParts(MinFields, Num(123456))))),
     ChinaContent(ChinaBody(PayloadText(ChinaParts(MinFields - 1, Num(123456)))))}

ServedUsQuote ==
    [kind |-> "present", open |-> [kind |-> "list", last |-> Num(102)],
     high |-> [kind |-> "list", last |-> Num(110)],
     low |-> [kind |-> "list", last |-> Num(95)],
     volume |-> [kind |-> "list", last |-> Num(123456)]]

ServedUsMeta ==
    [kind |-> "present", regularMarketPrice |-> Num(105), previousClose |-> Num(100),
     chartPreviousClose |-> Absent]

ServedUsResponses ==
    {UsEnvelope("http_error", "absent", "absent", NoMeta, NoQuote),
     UsEnvelope("json", "absent", "absent", NoMeta, NoQuote),
     UsEnvelope("json", "present", "list", ServedUsMeta, ServedUsQuote)}

\* the kind of answer a Taiwan response is, as kept in the request log
Answer(response) ==
    IF response.kind # "json" THEN response.kind
    ELSE IF response.rtcode # SuccessCode /\ response.rtmessage = "absent"
    THEN "api_error_no_message"
    ELSE IF response.rtcode # SuccessCode THEN "api_error"
    ELSE IF response.msgArray = <<>> THEN "empty"
    ELSE "found"

Request(venue, code, answer) == [venue |-> venue, code |-> code, answer |-> answer]

Init ==
    /\ fn = "none"
    /\ arg = <<>>
    /\ out = <<>>
    /\ tool = "idle"
    /\ market = "auto"
    /\ stock_codes = <<>>
    /\ idx = 0
    /\ pc = "idle"
    /\ requests = <<>>
    /\ lookups = <<>>
    /\ results = <<>>
    /\ ret = <<>>

DetectMarket ==
    /\ fn = "none" /\ tool = "idle"
    /\ UNCHANGED serve
    /\ \E code \in ClassifierInputs :
        /\ fn' = "detect_market"
        /\ arg' = code
        /\ out' = detect_market(code)

\* analysis = analyze_technical_indicators(stock_info);
\* suggestion = generate_trading_suggestion(analysis, stock_info)
AnalyzeStock ==
    /\ fn = "none" /\ tool = "idle"
    /\ UNCHANGED serve
    /\ \E stock_data \in AnalysisInputs :
        /\ fn' = "analyze"
        /\ arg' = stock_data
        /\ out' = LET analysis == analyze_technical_indicators(stock_data)
                  IN [analysis   |-> analysis,
                      suggestion |-> generate_trading_suggestion(analysis, stock_data)]

AnalyzeStock_tw ==
    /\ fn = "none" /\ tool = "idle"
    /\ UNCHANGED serve
    /\ \E stock_data \in AnalysisInputs :
        /\ fn' = "analyze_tw"
        /\ arg' = stock_data
        /\ out' = LET analysis == analyze_technical_indicators_tw(stock_data)
                  IN [analysis   |-> analysis,
                      suggestion |-> generate_trading_suggestion_tw(analysis, stock_data)]

CompareItem ==
    /\ fn = "none" /\ tool = "idle"
    /\ UNCHANGED serve
    /\ \E stock_data \in PlaceholderQuotes :
        /\ fn' = "compare"
        /\ arg' = stock_data
        /\ out' = CompareRow(<<>>, stock_data)

CompareItem_tw ==
    /\ fn = "none" /\ tool = "idle"
    /\ UNCHANGED serve
    /\ \E stock_data \in PlaceholderQuotes :
        /\ fn' = "compare_tw"
        /\ arg' = stock_data
        /\ out' = CompareRow_tw(<<>>, stock_data)

NextAnalysis == AnalyzeStock \/ AnalyzeStock_tw \/ CompareItem \/ CompareItem_tw

SpecAnalysis == Init /\ [][NextAnalysis]_vars

NextClassifier == DetectMarket

SpecClassifier == Init /\ [][NextClassifier]_vars

ChinaAdapter ==
    /\ fn = "none" /\ tool = "idle"
    /\ UNCHANGED serve
    /\ \E stock_code \in ChinaCodes, response \in ChinaResponses :
        /\ fn' = "get_china_stock_quote"
        /\ arg' = [stock_code |-> stock_code, response |-> response]
        /\ out' = get_china_stock_quote(stock_code, response)

UsAdapter ==
    /\ fn = "none" /\ tool = "idle"
    /\ UNCHANGED serve
    /\ \E stock_code \in UsCodes, response \in UsResponses :
        /\ fn' = "get_us_stock_quote"
        /\ arg' = [stock_code |-> stock_code, response |-> response]
        /\ out' = get_us_stock_quote(stock_code, response)

NextAdapters == ChinaAdapter \/ UsAdapter

SpecAdapters == Init /\ [][NextAdapters]_vars

(***************************************************************************)
(* Serving a tool call.  An action is the stretch of the coroutine between *)
(* two awaits: it starts with the answer to the request (or the sleep)     *)
(* awaited and runs to the next await or to the return.                    *)
(***************************************************************************)
Code == stock_codes[idx]

FirstRequest(t, code, requested) ==
    IF t \in TaiwanTools THEN "tse" ELSE Route(code, requested)

\* the loop goes on to item i, or the tool returns the list
Continue(i, list) ==
    /\ idx' = i
    /\ pc' = IF i > Len(stock_codes) THEN "done"
             ELSE FirstRequest(tool, stock_codes[i], market)
    /\ ret' = IF i > Len(stock_codes) THEN Text("list", list) ELSE ret

\* the lookup of the current item ends with `result` after the requests `log`
Finish(result, log) ==
    /\ lookups' = Append(lookups, [code |-> Code, requests |-> log, result |-> result])
    /\ requests' = <<>>
    /\ IF tool \in BatchTools
       THEN LET step == LoopBody(tool, Code, result) IN
            /\ results' = results \o step.records
            /\ IF step.sleeps
               THEN pc' = "sleep" /\ idx' = idx /\ ret' = ret
               ELSE Continue(idx + 1, results \o step.records)
       ELSE /\ results' = results
            /\ idx' = idx
            /\ pc' = "done"
            /\ ret' = SingleItem(tool, result)

Call(t, codes, requested) ==
    /\ tool = "idle" /\ fn = "none"
    /\ tool' = t
    /\ market' = requested
    /\ stock_codes' = codes
    /\ idx' = 1
    /\ pc' = FirstRequest(t, codes[1], requested)
    /\ UNCHANGED <<requests, lookups, results, ret, call>>

CallMultiBatch ==
    \E t \in MultiBatchTools, codes \in CodeLists({TaiwanCode, ChinaCode, UsCode}) :
        Call(t, codes, "auto")

CallTaiwanBatch ==
    \E t \in TaiwanBatchTools, codes \in CodeLists({TaiwanCode, OtcCode}) :
        Call(t, codes, "auto")

CallUniversalQuote ==
    \E code \in {TaiwanCode, ChinaCode, UsCode},
       requested \in {"auto", "taiwan", "china", "us"} :
        Call("get_universal_stock_quote", <<code>>, requested)

CallUniversalAnalysis ==
    \E code \in {TaiwanCode, ChinaCode, UsCode},
       requested \in {"auto", "taiwan", "china", "us"} :
        Call("analyze_universal_stock", <<code>>, requested)

CallRealtimeQuote ==
    \E code \in {TaiwanCode, OtcCode} : Call("get_stock_realtime_quote", <<code>>, "auto")

CallAnalyzeWithSuggestion ==
    \E code \in {TaiwanCode, OtcCode} :
        Call("analyze_stock_with_suggestion", <<code>>, "auto")

\* the answer to a request to the Taiwan endpoint arrives
TaiwanResponse ==
    /\ pc \in {"tse", "otc"}
    /\ \E response \in TaiwanResponses(Code) :
        LET log  == Append(requests, Request(pc, Code, Answer(response)))
            step == IF tool \in MultiTools
                    THEN get_taiwan_stock_quote(Code, pc, response)
                    ELSE lookup_tw(Code, pc, response)
        IN IF step.next = "otc"
           THEN /\ pc' = "otc"
                /\ requests' = log
                /\ UNCHANGED <<idx, lookups, results, ret>>
           ELSE Finish(step.result, log)
    /\ UNCHANGED <<tool, market, stock_codes, call>>

ChinaResponse ==
    /\ pc = "china"
    /\ \E response \in ServedChinaResponses :
        Finish(get_china_stock_quote(Code, response),
               Append(requests, Request("china", Code, response.kind)))
    /\ UNCHANGED <<tool, market, stock_codes, call>>

UsResponse ==
    /\ pc = "us"
    /\ \E response \in ServedUsResponses :
        Finish(get_us_stock_quote(Code, response),
               Append(requests, Request("us", Code, response.kind)))
    /\ UNCHANGED <<tool, market, stock_codes, call>>

\* asyncio.sleep returns
Wake ==
    /\ pc = "sleep"
    /\ Continue(idx + 1, results)
    /\ UNCHANGED <<tool, market, stock_codes, requests, lookups, results, call>>

Next ==
    \/ CallMultiBatch
    \/ CallTaiwanBatch
    \/ CallUniversalQuote
    \/ CallUniversalAnalysis
    \/ CallRealtimeQuote
    \/ CallAnalyzeWithSuggestion
    \/ TaiwanResponse
    \/ ChinaResponse
    \/ UsResponse
    \/ Wake

Spec == Init /\ [][Next]_vars

(***************************************************************************)
(* Properties.                                                             *)
(***************************************************************************)
Analyzed == fn \in {"analyze", "analyze_tw"}
Compared == fn \in {"compare", "compare_tw"}

\* the normalised code of the classifier's input
Normalised == Strip(Upper(arg))

\* SH or SZ followed by exactly 6 digits
IsShSzSixDigits(code) ==
    /\ Len(code) = 8
    /\ (StartsWith(code, <<"S", "H">>) \/ StartsWith(code, <<"S", "Z">>))
    /\ IsDigit(SubSeq(code, 3, 8))

\* C4: detect_market returns Taiwan for every pure-digit code of length 4 to 6,
\* China for every code that is SH or SZ followed by 6 digits, and US for every
\* code that contains a letter and is not of that SH/SZ + 6 digits form.
C4_Classifier ==
    fn = "detect_market" =>
        /\ (IsDigit(Normalised) /\ Len(Normalised) \in 4..6 => out = "taiwan")
        /\ (IsShSzSixDigits(Normalised) => out = "china")
        /\ (AnyAlpha(Normalised) /\ ~IsShSzSixDigits(Normalised) => out = "us")

\* C5: the price position of every analysed quote lies in [0, 100], and is
\* exactly 50 when high equals low.
C5_PricePositionInRange ==
    Analyzed /\ out.analysis.error = "" =>
        /\ FracGe(out.analysis.price_position, 0)
        /\ FracLe(out.analysis.price_position, 100)
        /\ (out.analysis.high = out.analysis.low
                => FracEq(out.analysis.price_position, 50))

FieldCoerced(raw, value) == IsPlaceholder(raw) => value = 0

\* C6: a quote with placeholder fields ('', '-', None) is analysed and compared
\* with those fields read as 0: the analysis carries no error and the compare
\* loops produce a row, never an error record.
C6_PlaceholdersCoerced ==
    /\ Analyzed /\ arg \notin UnanalyzableInputs =>
        /\ out.analysis.error = ""
        /\ FieldCoerced(arg.z, out.analysis.current)
        /\ FieldCoerced(arg.o, out.analysis.open)
        /\ FieldCoerced(arg.h, out.analysis.high)
        /\ FieldCoerced(arg.l, out.analysis.low)
        /\ FieldCoerced(arg.y, out.analysis.prev_close)
        /\ FieldCoerced(arg.v, out.analysis.volume)
    /\ Compared =>
        /\ out.kind = "row"
        /\ FieldCoerced(arg.z, out.price)

Suggests(action, risk_level) ==
    out.suggestion.action = action /\ out.suggestion.risk_level = risk_level

AnalyzedTrend(trend) ==
    Analyzed /\ out.analysis.error = "" /\ out.analysis.trend = trend

\* C8: with trend Up, a price position below 40 gives Buy at Medium risk, one
\* from 40 to below 70 gives Watch/small buy at Medium-high risk, one of 70 or
\* more gives Watch at High risk; the quote last=105, prevClose=100, open=102,
\* high=110, low=95 has trend Up and gives Watch/small buy at Medium-high risk.
C8_UpTable ==
    /\ AnalyzedTrend("Up") =>
        LET p == out.analysis.price_position IN
        /\ (FracLt(p, 40) => Suggests("Buy", "Medium"))
        /\ (FracGe(p, 40) /\ FracLt(p, 70) => Suggests("Watch/small buy", "Medium-high"))
        /\ (FracGe(p, 70) => Suggests("Watch", "High"))
    /\ Analyzed /\ arg = ExampleQuote =>
        /\ out.analysis.trend = "Up"
        /\ Suggests("Watch/small buy", "Medium-high")

C8_Witness ==
    /\ AnalyzedTrend("Up")
    /\ FracEq(out.analysis.price_position, 40)
    /\ Suggests("Watch/small buy", "Medium-high")

\* C9 as claimed: with trend Down, a price position above 60 gives Sell/reduce
\* at Medium-high risk, one from 30 to 60 inclusive gives Watch at Medium risk,
\* one below 30 gives Watch/small buy at Medium risk.
C9_DownTable_Claimed ==
    AnalyzedTrend("Down") =>
        LET p == out.analysis.price_position IN
        /\ (FracGt(p, 60) => Suggests("Sell/reduce", "Medium-high"))
        /\ (FracGe(p, 30) /\ FracLe(p, 60) => Suggests("Watch", "Medium"))
        /\ (FracLt(p, 30) => Suggests("Watch/small buy", "Medium"))

\* C9 amended: with trend Down, a price position above 60 gives Sell/reduce at
\* Medium-high risk, one above 30 and up to 60 gives Watch at Medium risk, one
\* of 30 or less gives Watch/small buy at Medium risk.
C9_DownTable ==
    AnalyzedTrend("Down") =>
        LET p == out.analysis.price_position IN
        /\ (FracGt(p, 60) => Suggests("Sell/reduce", "Medium-high"))
        /\ (FracGt(p, 30) /\ FracLe(p, 60) => Suggests("Watch", "Medium"))
        /\ (FracLe(p, 30) => Suggests("Watch/small buy", "Medium"))

C9_Witness ==
    /\ AnalyzedTrend("Down")
    /\ FracEq(out.analysis.price_position, 30)
    /\ Suggests("Watch/small buy", "Medium")

\* C10: with trend Flat, a price position below 30 gives Consider buy at
\* Medium-low risk, one above 70 gives Watch at Medium risk, one from 30 to 70
\* inclusive gives Watch at Medium risk.
C10_FlatTable ==
    AnalyzedTrend("Flat") =>
        LET p == out.analysis.price_position IN
        /\ (FracLt(p, 30) => Suggests("Consider buy", "Medium-low"))
        /\ (FracGt(p, 70) => Suggests("Watch", "Medium"))
        /\ (FracGe(p, 30) /\ FracLe(p, 70) => Suggests("Watch", "Medium"))

C10_Witness ==
    /\ AnalyzedTrend("Flat")
    /\ FracEq(out.analysis.price_position, 30)
    /\ Suggests("Watch", "Medium")

\* what lies between the first '="' and the last '"' of a body that has both
QuotedPayload(content) ==
    IF \E i, j \in DOMAIN content :
            /\ i + 1 < j /\ content[i] = Ch("eq") /\ content[i + 1] = Ch("quote")
            /\ content[j] = Ch("quote")
    THEN LET i == CHOOSE i \in DOMAIN content :
                    /\ i < Len(content)
                    /\ content[i] = Ch("eq") /\ content[i + 1] = Ch("quote")
                    /\ \A k \in 1..(i - 1) :
                            ~(content[k] = Ch("eq") /\ content[k + 1] = Ch("quote"))
             j == CHOOSE j \in DOMAIN content :
                    /\ content[j] = Ch("quote")
                    /\ \A k \in (j + 1)..Len(content) : content[k] # Ch("quote")
         IN SubSeq(content, i + 2, j - 1)
    ELSE <<>>

\* the number of '~'-separated fields of a payload
FieldCount(payload) ==
    1 + Cardinality({i \in DOMAIN payload : payload[i] = Ch("tilde")})

\* the China response is well formed: a payload of at least 40 fields
ChinaWellFormed(response) ==
    /\ response.kind = "body"
    /\ QuotedPayload(response.content) # <<>>
    /\ FieldCount(QuotedPayload(response.content)) >= MinFields

\* field 6 (the volume) of a well-formed China response
ChinaVolumeField(response) ==
    FieldValue(Part(Split(QuotedPayload(response.content), Ch("tilde")), 6))

\* the US response is well formed: chart.result[0] with meta and indicators.quote[0]
UsWellFormed(response) ==
    /\ response.kind = "json" /\ response.chart = "present" /\ response.result = "list"
    /\ response.meta.kind = "present" /\ response.quote.kind = "present"

\* a US array that is absent, empty, or ends in null
BadArray(array) == array.kind # "list" \/ array.last.kind # "num"

UsBadFields(quote) ==
    {f \in {"open", "high", "low", "volume"} : BadArray(quote[f])}

UsField(quote, f) ==
    IF f = "open" THEN quote.o
    ELSE IF f = "high" THEN quote.h
    ELSE IF f = "low" THEN quote.l
    ELSE quote.v

\* C7: a well-formed China response whose volume field is not numeric, and a
\* well-formed US response with one of the open/high/low/volume arrays absent,
\* empty or ending in null, still give a quote, with that field 0.
C7_BadFieldDefaults ==
    /\ fn = "get_china_stock_quote" /\ ChinaWellFormed(arg.response) =>
        /\ out.ok
        /\ (FloatRaises(ChinaVolumeField(arg.response)) => out.quote.v = Num(0))
    /\ fn = "get_us_stock_quote" /\ UsWellFormed(arg.response)
       /\ Cardinality(UsBadFields(arg.response.quote)) = 1 =>
        /\ out.ok
        /\ \A f \in UsBadFields(arg.response.quote) : UsField(out.quote, f) = Num(0)

Finished == {lookups[i] : i \in DOMAIN lookups}

\* C1: in the multi-market batch tools the list holds one record per item
\* processed, in input order: the error record with the item's code and its
\* failure message when its lookup failed (whatever the failure), the quote or
\* the comparison row of its own lookup otherwise; the tool returns the list
\* when every code has its record.
C1_MultiBatchRecords ==
    tool \in MultiBatchTools =>
        /\ Len(results) = Len(lookups)
        /\ Len(results) <= Len(stock_codes)
        /\ \A i \in DOMAIN results :
            LET lookup == lookups[i] IN
            /\ lookup.code = stock_codes[i]
            /\ \A k \in DOMAIN lookup.requests : lookup.requests[k].code = stock_codes[i]
            /\ results[i].kind = "error" <=> ~lookup.result.ok
            /\ ~lookup.result.ok
                => results[i] = ErrorRecord(stock_codes[i], lookup.result.error)
            /\ lookup.result.ok /\ tool = "get_multiple_market_stocks_quotes"
                => results[i] = QuoteRecord(lookup.result.quote)
            /\ lookup.result.ok /\ tool = "compare_multi_market_stocks"
                => /\ results[i].kind = "row"
                   /\ results[i].code = stock_codes[i]
                   /\ results[i].price = safe_float(lookup.result.quote.z)
        /\ pc = "done" =>
            /\ Len(results) = Len(stock_codes)
            /\ ret = Text("list", results)

C1_Witness ==
    /\ tool \in MultiBatchTools /\ pc = "done" /\ Len(stock_codes) = 2
    /\ results[1].kind = "error" /\ lookups[1].requests[1].answer = "http_error"
    /\ results[2].kind # "error"

\* C2: when a Taiwan batch tool returns, the list holds one record per input
\* code, in input order, a code found at neither venue included.
C2_TaiwanBatchRecords ==
    tool \in TaiwanBatchTools /\ pc = "done" =>
        /\ Len(results) = Len(stock_codes)
        /\ \A i \in DOMAIN results : results[i].code = stock_codes[i]

\* the request logs of the Taiwan lookups, finished or in progress
IsTaiwanLog(log) == log # <<>> /\ log[1].venue \in {"tse", "otc"}
TaiwanLookups == {l \in Finished : IsTaiwanLog(l.requests)}
IsNotFound(result) == ~result.ok /\ "not-found" \in Range(result.error)

\* C3: a Taiwan lookup queries the listed venue first; when that answers with an
\* empty array it queries the OTC venue next; it fails as not found only after
\* both venues answered with an empty array; a listed-venue answer that has the
\* quote is returned without a request to the OTC venue.
C3_VenueFallback ==
    /\ \A log \in {l.requests : l \in TaiwanLookups}
                \cup {r \in {requests} : IsTaiwanLog(r)} :
        /\ Len(log) <= 2
        /\ log[1].venue = "tse"
        /\ Len(log) = 2 => log[2].venue = "otc" /\ log[1].answer = "empty"
    /\ IsTaiwanLog(requests) => pc = "otc" /\ requests = <<Request("tse", Code, "empty")>>
    /\ \A l \in TaiwanLookups :
        /\ l.requests[1].answer = "empty" => Len(l.requests) = 2
        /\ IsNotFound(l.result)
            => Len(l.requests) = 2 /\ \A k \in 1..2 : l.requests[k].answer = "empty"
        /\ l.requests[1].answer = "found"
            => Len(l.requests) = 1 /\ l.result.ok /\ l.result.quote.c = l.code

C3_Witness ==
    \E l \in TaiwanLookups :
        /\ IsNotFound(l.result)
        /\ l.requests = <<Request("tse", l.code, "empty"), Request("otc", l.code, "empty")>>

\* C11: whenever the analysis handed to generate_trading_suggestion carries an
\* error, the suggestion is action 'cannot analyze', risk level 'unknown' and
\* the analysis error text as its reason, with nothing of the decision table
\* in it; this holds in both servers and nothing is raised (out is a result).
C11_ErrorSuggestion ==
    Analyzed /\ out.analysis.error # "" =>
        /\ out.suggestion.action = "cannot analyze"
        /\ out.suggestion.risk_level = "unknown"
        /\ out.suggestion.reason = out.analysis.error
        /\ out.suggestion.market = "absent"

C11_Witness ==
    /\ fn = "analyze" /\ arg # NotADict /\ arg.v = InfVal
    /\ out.analysis = AnalysisError("analysis-error: OverflowError")
    /\ out.suggestion.action = "cannot analyze"

\* C12: in every batch tool the loop moves on to the next item's first request
\* only out of its pause (asyncio.sleep), whether the item before ended in a
\* quote or in a per-item error.
C12_PauseBetweenItems ==
    [][(tool \in BatchTools /\ idx' = idx + 1 /\ idx' <= Len(stock_codes))
            => (pc = "sleep")]_vars

\* the six digits of the China adapter's input code
SixDigits == LET code == Strip(Upper(arg.stock_code)) IN SubSeq(code, Len(code) - 5, Len(code))

\* the exchange the claim gives to a 6-digit code
ClaimedExchange(digits) ==
    IF SubSeq(digits, 1, 2) = <<"6", "0">>
       \/ SubSeq(digits, 1, 3) \in {<<"6", "8", "8">>, <<"6", "8", "9">>}
    THEN <<"s", "h">>
    ELSE IF SubSeq(digits, 1, 2) \in {<<"0", "0">>, <<"3", "0">>}
            \/ SubSeq(digits, 1, 3) = <<"0", "0", "2">>
    THEN <<"s", "z">>
    ELSE <<"s", "h">>

\* C13: the symbol the China adapter queries is derived from the six digits of
\* the code alone: sh + digits for digits starting with 60, 688 or 689, sz +
\* digits for digits starting with 00, 30 or 002, sh + digits for every other;
\* 600519 gives sh600519 and 000001 gives sz000001; a quote returned carries
\* that symbol (in upper case) as its code.
C13_ChinaSymbol ==
    fn = "get_china_stock_quote" =>
        /\ IsDigit(SixDigits)
        /\ TencentCode(arg.stock_code) = ClaimedExchange(SixDigits) \o SixDigits
        /\ out.ok => out.quote.c = Upper(ClaimedExchange(SixDigits) \o SixDigits)
        /\ arg.stock_code = <<"6", "0", "0", "5", "1", "9">>
            => TencentCode(arg.stock_code) = <<"s", "h", "6", "0", "0", "5", "1", "9">>
        /\ arg.stock_code = <<"0", "0", "0", "0", "0", "1">>
            => TencentCode(arg.stock_code) = <<"s", "z", "0", "0", "0", "0", "0", "1">>

C13_Witness ==
    /\ fn = "get_china_stock_quote"
    /\ arg.stock_code = <<"8", "3", "0", "7", "9", "9">>
    /\ out.ok /\ out.quote.c = <<"S", "H", "8", "3", "0", "7", "9", "9">>

\* C14: the China adapter returns a quote only for a body with a quoted,
\* non-empty payload of at least 40 '~'-separated fields; an empty or blank
\* body and a body without the '="' marker fail as not found (naming the
\* code), a payload of fewer than 40 fields fails with the format-error
\* message, and a failure carries no quote, complete or partial.
C14_ChinaPayload ==
    fn = "get_china_stock_quote" /\ arg.response.kind = "body" =>
        LET content == arg.response.content
            marked  == \E i \in DOMAIN content :
                            /\ i < Len(content)
                            /\ content[i] = Ch("eq") /\ content[i + 1] = Ch("quote")
            payload == QuotedPayload(content)
        IN /\ out.ok => marked /\ payload # <<>> /\ FieldCount(payload) >= MinFields
           /\ content = <<>> \/ IsBlank(content) \/ ~marked
                => out = Failed(<<"china-failed", "not-found", arg.stock_code>>)
           /\ payload # <<>> /\ FieldCount(payload) < MinFields
                => out = Failed(<<"china-failed", "format-error">>)
           /\ ~out.ok => out.quote = <<>>

C14_Witness ==
    /\ fn = "get_china_stock_quote" /\ arg.response.kind = "body"
    /\ FieldCount(QuotedPayload(arg.response.content)) = MinFields - 1
    /\ out = Failed(<<"china-failed", "format-error">>)

\* the Taiwan lookups that got an answer with a status other than the success code
StatusFailures ==
    {l \in TaiwanLookups :
        \E k \in DOMAIN l.requests :
            l.requests[k].answer \in {"api_error", "api_error_no_message"}}

\* C15: a Taiwan lookup whose endpoint answers with a status other than the
\* success code ends there, in both servers: it fails with the api-error
\* message that carries the upstream's message text, and returns no quote.
C15_TaiwanStatus ==
    /\ \A k \in DOMAIN requests :
            requests[k].answer \notin {"api_error", "api_error_no_message"}
    /\ \A l \in StatusFailures :
        LET last == l.requests[Len(l.requests)] IN
        /\ last.answer \in {"api_error", "api_error_no_message"}
        /\ ~l.result.ok
        /\ l.result.quote = <<>>
        /\ \E i \in DOMAIN l.result.error :
                /\ l.result.error[i] = "api-error"
                /\ i < Len(l.result.error)
                /\ last.answer = "api_error" => l.result.error[i + 1] = "upstream message"

C15_Witness ==
    \E l \in StatusFailures :
        /\ tool \in MultiTools
        /\ l.requests = <<Request("tse", l.code, "api_error")>>
        /\ l.result = Failed(<<"taiwan-failed", "api-error", "upstream message">>)

SingleItemTools ==
    {"get_universal_stock_quote", "analyze_universal_stock",
     "get_stock_realtime_quote", "analyze_stock_with_suggestion"}

\* a single-item tool has returned the text of a quote
ReturnedQuote == tool \in SingleItemTools /\ pc = "done" /\ ret.kind \in {"quote", "analysis"}

\* the quote of the one lookup of a single-item tool
TheQuote == lookups[1].result.quote

\* C16: a Taiwan quote whose last price is '', '-', null or zero is rendered as
\* after-hours by both servers: the price line is the previous close, labelled
\* as the close, and no change is computed from the last price.
C16_AfterHoursMarked ==
    ReturnedQuote /\ IsTaiwanLog(lookups[1].requests)
    /\ (IsPlaceholder(TheQuote.z) \/ safe_float(TheQuote.z) = 0) =>
        LET shown == ret.body.markdown IN
        /\ shown.kind = "markdown"
        /\ shown.after_hours
        /\ shown.heading = "close info" /\ shown.price_label = "close"
        /\ shown.price = safe_float(TheQuote.y)
        /\ shown.change = DashStr

\* the message ends the text
EndsWith(text, message) ==
    /\ Len(text) >= Len(message)
    /\ SubSeq(text, Len(text) - Len(message) + 1, Len(text)) = message

\* C17: each of the four single-item tools returns a text as soon as its lookup
\* has ended, whatever the outcome: the text of the quote or of the analysis
\* when the lookup gave a quote, and a failure text that contains the error
\* message when the lookup failed; no failure leaves the tool as an exception.
C17_SingleItemReturnsText ==
    tool \in SingleItemTools /\ lookups # <<>> =>
        /\ Len(lookups) = 1 /\ pc = "done"
        /\ ret.kind \in {"quote", "analysis", "failure"}
        /\ lookups[1].result.ok => ret.kind # "failure"
        /\ ~lookups[1].result.ok =>
                ret.kind = "failure" /\ EndsWith(ret.body, lookups[1].result.error)

C17_Witness ==
    /\ tool = "analyze_universal_stock" /\ pc = "done"
    /\ lookups[1].requests[1].answer = "http_error"
    /\ ret.kind = "failure" /\ ret.body[1] = "analysis-failed"

\* the US response has no chart object, or no chart.result to read a quote
\* from: the key missing, null, or an empty list
UsNoResult(response) ==
    /\ response.kind = "json"
    /\ (response.chart = "absent" \/ response.result \in {"absent", "null", "empty"})

\* C18: for a response with no chart object or no usable chart.result (key
\* missing, null, empty list) the US adapter fails with the not-found error
\* that names the symbol, and returns no quote.
C18_UsNotFound ==
    fn = "get_us_stock_quote" /\ UsNoResult(arg.response) =>
        /\ ~out.ok
        /\ out.quote = <<>>
        /\ out.error = <<"us-failed", "not-found", Strip(Upper(arg.stock_code))>>

\* the market get_stock_quote dispatches a code to
Dispatched(code) == IF market = "auto" THEN detect_market(code) ELSE market

\* the market of the adapter that served a request
AdapterOf(venue) == IF venue \in {"tse", "otc"} THEN "taiwan" ELSE venue

\* C19: in the multi-market server every lookup goes to the adapter of the
\* market asked for, or of detect_market(code) when none is asked for, and the
\* quote it returns carries that market; the quote has the same market in the
\* batch list, in the text a single-item tool returns, and in the suggestion
\* made from it (the suggestion of a failed analysis carries no market).
C19_MarketOfAdapter ==
    tool \in MultiTools =>
        /\ \A k \in DOMAIN requests : AdapterOf(requests[k].venue) = Dispatched(Code)
        /\ \A i \in DOMAIN lookups :
            LET l == lookups[i] IN
            /\ \A k \in DOMAIN l.requests :
                    AdapterOf(l.requests[k].venue) = Dispatched(l.code)
            /\ l.result.ok => l.result.quote.market = Dispatched(l.code)
            /\ l.result.ok /\ tool = "get_multiple_market_stocks_quotes"
                => results[i].quote.market = Dispatched(l.code)
            /\ l.result.ok /\ tool = "get_universal_stock_quote"
                => ret.body.json.market = Dispatched(l.code)
            /\ l.result.ok /\ tool = "analyze_universal_stock"
                => /\ ret.body.json.stock_info.market = Dispatched(l.code)
                   /\ ret.body.json.technical_analysis.error = ""
                        => ret.body.json.trading_suggestion.market = Dispatched(l.code)

C19_Witness ==
    /\ tool = "analyze_universal_stock" /\ pc = "done" /\ market = "china"
    /\ detect_market(stock_codes[1]) = "us"
    /\ lookups[1].result.ok
    /\ ret.body.json.stock_info.market = "china"
    /\ ret.body.json.trading_suggestion.market = "china"

\* the quotes with order-book data that a lookup returned
BookQuotes ==
    {l.result.quote : l \in {l \in Finished : l.result.ok /\ l.requests[1].venue # "us"}}

\* the four sequences of a quote's order book have one length, at most 5
ParallelBook(quote) ==
    LET n == Len(Levels(quote.b)) IN
    /\ n <= BookDepth
    /\ Len(Levels(quote.g)) = n /\ Len(Levels(quote.a)) = n /\ Len(Levels(quote.f)) = n

\* level k of a China quote is read from fields 9.., 10.., 11.., 12.. + 4(k-1);
\* field j of the payloads served holds the number j
ChinaBookFields(quote) ==
    \A k \in 1..BookDepth :
        /\ Levels(quote.b)[k] = <<Num(9 + 4 * (k - 1))>>
        /\ Levels(quote.g)[k] = <<Num(10 + 4 * (k - 1))>>
        /\ Levels(quote.a)[k] = <<Num(11 + 4 * (k - 1))>>
        /\ Levels(quote.f)[k] = <<Num(12 + 4 * (k - 1))>>

\* C20: in every Taiwan and China quote the bid prices, bid sizes, ask prices
\* and ask sizes are sequences of one common length of at most 5, best level
\* first; in a China quote the k-th bid is fields 9+4(k-1) and 10+4(k-1) and
\* the k-th ask is fields 11+4(k-1) and 12+4(k-1), for k = 1..5.
C20_OrderBook ==
    \A quote \in BookQuotes :
        /\ ParallelBook(quote)
        /\ quote.market = "china" => ChinaBookFields(quote)

\* a quote field read as a number: a placeholder or an unparsable text as 0
ReadAs(raw) == IF raw.kind = "num" THEN raw.v ELSE 0

TrendLabels(trend, trend_strength) ==
    out.analysis.trend = trend /\ out.analysis.trend_strength = trend_strength

\* C21: the analysis of either server classifies the trend from last, prevClose
\* and open only (the quote's z, y and o read as numbers): last > prevClose
\* gives Up, strong if last > open and choppy-up otherwise; last < prevClose
\* gives Down, weak if last < open and choppy-down otherwise; last = prevClose
\* gives Flat, consolidating.
C21_TrendLabels ==
    Analyzed /\ arg \notin UnanalyzableInputs =>
        LET last      == ReadAs(arg.z)
            prevClose == ReadAs(arg.y)
            open      == ReadAs(arg.o)
        IN /\ (last > prevClose /\ last > open  => TrendLabels("Up", "strong"))
           /\ (last > prevClose /\ last <= open => TrendLabels("Up", "choppy-up"))
           /\ (last < prevClose /\ last < open  => TrendLabels("Down", "weak"))
           /\ (last < prevClose /\ last >= open => TrendLabels("Down", "choppy-down"))
           /\ (last = prevClose => TrendLabels("Flat", "consolidating"))

\* a rise that ends exactly at the open, analysed as Up and choppy-up
C21_Witness ==
    /\ Analyzed /\ arg \notin UnanalyzableInputs
    /\ ReadAs(arg.z) > ReadAs(arg.y) /\ ReadAs(arg.z) = ReadAs(arg.o)
    /\ TrendLabels("Up", "choppy-up")

\* C22: the analysis of either server gives every price position p exactly one
\* label: near high for p >= 80, upper-mid for 60 <= p < 80, mid for
\* 40 <= p < 60, lower-mid for 20 <= p < 40, near low for p < 20.
C22_PositionLabels ==
    Analyzed /\ out.analysis.error = "" =>
        LET p    == out.analysis.price_position
            desc == out.analysis.position_desc
        IN /\ (FracGe(p, 80) => desc = "near high")
           /\ (FracGe(p, 60) /\ FracLt(p, 80) => desc = "upper-mid")
           /\ (FracGe(p, 40) /\ FracLt(p, 60) => desc = "mid")
           /\ (FracGe(p, 20) /\ FracLt(p, 40) => desc = "lower-mid")
           /\ (FracLt(p, 20) => desc = "near low")

\* a price position of exactly 60, labelled upper-mid
C22_Witness ==
    /\ Analyzed /\ out.analysis.error = ""
    /\ FracEq(out.analysis.price_position, 60)
    /\ out.analysis.position_desc = "upper-mid"

\* the request logs of all lookups, finished or in progress
RequestLogs == {l.requests : l \in Finished} \cup {requests}

\* a request that got no usable answer: transport error or timeout or HTTP
\* status (http_error), a body that does not parse, a status other than success
FailedAnswers == {"http_error", "bad_json", "api_error", "api_error_no_message"}

\* C23: a single quote lookup sends at most 2 requests for a Taiwan code and at
\* most 1 for a China or US code, all for the code looked up; a request that
\* failed is the last of its lookup, and the OTC request follows only a
\* listed-venue request that succeeded with an empty result.
C23_RequestBudget ==
    /\ \A log \in RequestLogs :
        /\ Len(log) <= 2
        /\ \A k \in DOMAIN log :
            /\ log[k].venue \in {"china", "us"} => Len(log) = 1
            /\ log[k].code = log[1].code
            /\ k < Len(log) =>
                /\ log[k].answer \notin FailedAnswers
                /\ log[k] = Request("tse", log[1].code, "empty")
                /\ log[k + 1].venue = "otc"
    /\ \A l \in Finished :
        /\ l.requests # <<>>
        /\ l.requests[1].code = l.code
        /\ l.requests[Len(l.requests)].answer \in FailedAnswers => ~l.result.ok
    /\ pc \in {"tse", "china", "us"} => requests = <<>>
    /\ pc \in {"otc"} => Len(requests) = 1
    /\ pc \in {"sleep", "done", "idle"} => requests = <<>>

\* a batch whose first lookup ended with a failed listed-venue request and whose
\* second, for the same code, went on to the OTC venue and failed there
C23_Witness ==
    /\ Len(lookups) = 2
    /\ lookups[1].code = lookups[2].code
    /\ Len(lookups[1].requests) = 1
    /\ lookups[1].requests[1].answer = "http_error"
    /\ Len(lookups[2].requests) = 2
    /\ lookups[2].requests[2].answer \in FailedAnswers

\* the spellings of one 6-digit code: bare, and behind SH or SZ in any case
Spellings(digits) ==
    {prefix \o digits :
        prefix \in {<<>>} \cup {<<s, x>> : s \in {"S", "s"}, x \in {"H", "h", "Z", "z"}}}

\* the code was given with a prefix naming the other exchange than the one
\* queried
PrefixDisagrees ==
    LET given == Strip(Upper(arg.stock_code)) IN
    /\ Len(given) = 8
    /\ Upper(SubSeq(TencentCode(arg.stock_code), 1, 2)) # SubSeq(given, 1, 2)

\* C24: in the China adapter a given SH or SZ prefix never decides the
\* exchange: the symbol queried for a code is the one queried for its six
\* digits alone and for every other spelling of it (SH or SZ in front, in any
\* letter case), the same answer gives every spelling the same quote, carrying
\* that symbol, and SZ600519 queries sh600519.
C24_PrefixIgnored ==
    fn = "get_china_stock_quote" =>
        LET symbol == TencentCode(arg.stock_code) IN
        /\ arg.stock_code \in Spellings(SixDigits)
        /\ symbol = TencentCode(SixDigits)
        /\ SubSeq(symbol, 3, Len(symbol)) = SixDigits
        /\ \A other \in Spellings(SixDigits) :
            /\ TencentCode(other) = symbol
            /\ LET result == get_china_stock_quote(other, arg.response)
               IN result.ok = out.ok /\ result.quote = out.quote
        /\ out.ok => out.quote.c = Upper(TencentCode(SixDigits))
        /\ arg.stock_code = <<"S", "Z", "6", "0", "0", "5", "1", "9">>
            => symbol = <<"s", "h", "6", "0", "0", "5", "1", "9">>

\* a Shenzhen code given behind sH: the quote returned is Shenzhen's
C24_Witness ==
    /\ fn = "get_china_stock_quote"
    /\ arg.stock_code = <<"s", "H", "3", "0", "0", "7", "5", "0">>
    /\ PrefixDisagrees
    /\ out.ok /\ out.quote.c = <<"S", "Z", "3", "0", "0", "7", "5", "0">>

====
